---- MODULE Spec2Model ----
(***************************************************************************)
(* Model of modulos/patrones_commentarios_cbl.py: classification of the    *)
(* lines of a fixed-column COBOL program (comment lines, separators,       *)
(* comments holding DISPLAY) and extraction of the blocks delimited by     *)
(* label lines of the form **A*.                                           *)
(*                                                                         *)
(* A string is a sequence of one-character strings.  Offsets are 0-based   *)
(* as in the Python source: Idx(s, k) is s[k].                             *)
(***************************************************************************)
EXTENDS Integers, Sequences, FiniteSets, TLC

\* ------------------------------------------------------------------ bounds
MaxSuf == 6          \* longest generated tail of a line given to es_separador
MaxEtq == 5          \* longest generated line given to es_patron_etiqueta
MaxLineas == 3       \* longest line list given to the list operations
MaxLineasTexto == 4  \* most lines of a text given to the block extractor

\* ------------------------------------------------------- Python str helpers
\* characters str.strip()/str.rstrip() remove when called without argument
Whitespace == {" ", "\t", "\n", "\r", "\f"}

\* characters that end a line for str.splitlines() / file.readlines()
Terminadores == {"\n", "\r"}

Minusculas == <<"a","b","c","d","e","f","g","h","i","j","k","l","m",
                "n","o","p","q","r","s","t","u","v","w","x","y","z">>
Mayusculas == <<"A","B","C","D","E","F","G","H","I","J","K","L","M",
                "N","O","P","Q","R","S","T","U","V","W","X","Y","Z">>

Range(s) == {s[k] : k \in 1..Len(s)}

Rep(c, n) == [k \in 1..n |-> c]

\* s[k] with a 0-based offset; Python raises IndexError when ~InRange(s, k)
InRange(s, k) == k >= 0 /\ k < Len(s)
Idx(s, k) == s[k + 1]

\* s[k:]
Slice(s, k) == IF k >= Len(s) THEN <<>> ELSE SubSeq(s, k + 1, Len(s))

\* s.rstrip()
rstrip(s) ==
    LET keep == {k \in 1..Len(s) : s[k] \notin Whitespace}
    IN  IF keep = {} THEN <<>>
        ELSE SubSeq(s, 1, CHOOSE k \in keep : \A j \in keep : j <= k)

\* s.lstrip()
lstrip(s) ==
    LET keep == {k \in 1..Len(s) : s[k] \notin Whitespace}
    IN  IF keep = {} THEN <<>>
        ELSE SubSeq(s, CHOOSE k \in keep : \A j \in keep : k <= j, Len(s))

\* s.strip()
strip(s) == lstrip(rstrip(s))

\* s.replace(c, "")
replace(s, c) == SelectSeq(s, LAMBDA d : d # c)

\* s.upper()
UpperChar(c) ==
    IF \E k \in 1..26 : Minusculas[k] = c
    THEN Mayusculas[CHOOSE k \in 1..26 : Minusculas[k] = c]
    ELSE c
upper(s) == [k \in 1..Len(s) |-> UpperChar(s[k])]

\* sub in s
Contains(s, sub) ==
    \E o \in 0..(Len(s) - Len(sub)) :
        \A k \in 1..Len(sub) : s[o + k] = sub[k]

\* sep.join(parts) with sep = "\n"
RECURSIVE join(_)
join(parts) ==
    IF parts = <<>> THEN <<>>
    ELSE IF Len(parts) = 1 THEN parts[1]
    ELSE parts[1] \o <<"\n">> \o join(Tail(parts))

\* s.splitlines(): split at "\n", "\r" and "\r\n"; no empty last line
RECURSIVE SplitFrom(_, _)
SplitFrom(s, cur) ==
    IF s = <<>> THEN (IF cur = <<>> THEN <<>> ELSE <<cur>>)
    ELSE IF s[1] = "\r" /\ Len(s) >= 2 /\ s[2] = "\n"
         THEN <<cur>> \o SplitFrom(Slice(s, 2), <<>>)
    ELSE IF s[1] \in Terminadores
         THEN <<cur>> \o SplitFrom(Tail(s), <<>>)
    ELSE SplitFrom(Tail(s), Append(cur, s[1]))
splitlines(s) == SplitFrom(s, <<>>)

\* result of evaluating an expression: a value, or an exception raised
Val(v) == [exc |-> FALSE, val |-> v]
Raise == [exc |-> TRUE, val |-> FALSE]

\* ------------------------------------------------------------ pure functions
\* es_separador without the length guard of line 39
es_separador_sin_guarda(linea) ==
    IF ~InRange(linea, 6) THEN Raise
    ELSE IF Idx(linea, 6) # "*" THEN Val(FALSE)
    ELSE LET contenido == replace(strip(Slice(linea, 7)), " ")
         IN  Val(Len(contenido) >= 5 /\ Cardinality(Range(contenido)) = 1)

\* es_separador with the threshold of line 48 off by one
es_separador_umbral(linea) ==
    IF Len(linea) < 10 THEN Val(FALSE)
    ELSE IF ~InRange(linea, 6) THEN Raise
    ELSE IF Idx(linea, 6) # "*" THEN Val(FALSE)
    ELSE LET contenido == replace(strip(Slice(linea, 7)), " ")
         IN  Val(Len(contenido) >= 4 /\ Cardinality(Range(contenido)) = 1)

es_separador(linea) ==
    IF Len(linea) < 10 THEN Val(FALSE)
    ELSE IF ~InRange(linea, 6) THEN Raise
    ELSE IF Idx(linea, 6) # "*" THEN Val(FALSE)
    ELSE LET contenido == replace(strip(Slice(linea, 7)), " ")
         IN  Val(Len(contenido) >= 5 /\ Cardinality(Range(contenido)) = 1)

\* re.match(r"^\*\*[A-Za-z]\*$", s): "$" matches at the end of s and also
\* just before one "\n" that ends s
re_match_etiqueta(s) ==
    /\ Len(s) = 4 \/ (Len(s) = 5 /\ s[5] = "\n")
    /\ s[1] = "*"
    /\ s[2] = "*"
    /\ s[3] \in Range(Minusculas) \cup Range(Mayusculas)
    /\ s[4] = "*"

\* es_patron_etiqueta matching the raw line instead of linea.strip()
es_patron_etiqueta_sin_strip(linea) == re_match_etiqueta(linea)

es_patron_etiqueta(linea) == re_match_etiqueta(strip(linea))

\* the test of line 61; the operands of "and" are evaluated left to right
\* and the evaluation stops at the first false one
cond_comentada_sin_separador(linea) ==
    IF ~(Len(linea) > 6) THEN Val(FALSE)
    ELSE IF ~InRange(linea, 6) THEN Raise
    ELSE Val(Idx(linea, 6) = "*")

cond_comentada(linea) ==
    IF ~(Len(linea) > 6) THEN Val(FALSE)
    ELSE IF ~InRange(linea, 6) THEN Raise
    ELSE IF Idx(linea, 6) # "*" THEN Val(FALSE)
    ELSE LET r == es_separador(linea)
         IN  IF r.exc THEN Raise ELSE Val(~r.val)

\* the test of line 75
cond_num(linea) ==
    IF ~(Len(linea) > 6) THEN Val(FALSE)
    ELSE IF ~InRange(linea, 6) THEN Raise
    ELSE Val(Idx(linea, 6) = "*")

\* the word searched by line 126
DISPLAY == <<"D", "I", "S", "P", "L", "A", "Y">>

\* the test of line 126 without .upper()
cond_display_sin_upper(linea) ==
    IF ~(Len(linea) > 6) THEN Val(FALSE)
    ELSE IF ~InRange(linea, 6) THEN Raise
    ELSE IF Idx(linea, 6) # "*" THEN Val(FALSE)
    ELSE Val(Contains(linea, DISPLAY))

\* the test of line 126
cond_display(linea) ==
    IF ~(Len(linea) > 6) THEN Val(FALSE)
    ELSE IF ~InRange(linea, 6) THEN Raise
    ELSE IF Idx(linea, 6) # "*" THEN Val(FALSE)
    ELSE Val(Contains(upper(linea), DISPLAY))

\* the content stored with a line number, lines 62 and 127
contenido_strip(linea) == strip(linea)

contenido_salida(linea) == rstrip(linea)

\* the line number stored with a line, lines 62 and 127
numero_desde_cero(i) == i

numero_linea(i) == i + 1

\* ----------------------------------------------------------- block extractor
\* the loop-carried locals of ext_bloq_comentados_patron_etiqueta
Locales(b, a, d) == [bloques |-> b, bloque_actual |-> a, dentro_bloque |-> d]

\* loop body in which the closing label is emitted without being appended
cuerpo_sin_cierre(linea, st) ==
    IF es_patron_etiqueta(linea)
    THEN IF st.dentro_bloque
         THEN Locales(Append(st.bloques, join(st.bloque_actual)), <<>>, FALSE)
         ELSE Locales(st.bloques, Append(st.bloque_actual, linea), TRUE)
    ELSE IF st.dentro_bloque
         THEN Locales(st.bloques, Append(st.bloque_actual, linea), TRUE)
         ELSE st

\* loop body in which a closing label also opens the next block
cuerpo_reabre(linea, st) ==
    IF es_patron_etiqueta(linea)
    THEN IF st.dentro_bloque
         THEN Locales(Append(st.bloques,
                             join(Append(st.bloque_actual, linea))),
                      <<linea>>, TRUE)
         ELSE Locales(st.bloques, Append(st.bloque_actual, linea), TRUE)
    ELSE IF st.dentro_bloque
         THEN Locales(st.bloques, Append(st.bloque_actual, linea), TRUE)
         ELSE st

\* the body of the for loop, lines 101-111
cuerpo_bucle(linea, st) ==
    IF es_patron_etiqueta(linea)
    THEN IF st.dentro_bloque
         THEN Locales(Append(st.bloques,
                             join(Append(st.bloque_actual, linea))),
                      <<>>, FALSE)
         ELSE Locales(st.bloques, Append(st.bloque_actual, linea), TRUE)
    ELSE IF st.dentro_bloque
         THEN Locales(st.bloques, Append(st.bloque_actual, linea), TRUE)
         ELSE st

\* a return that flushes the pending buffer at the end of the input
valor_retorno_con_resto(st) ==
    IF st.dentro_bloque
    THEN Append(st.bloques, join(st.bloque_actual))
    ELSE st.bloques

\* return bloques, line 113
valor_retorno(st) == st.bloques

\* --------------------------------------------------------------- the inputs
Seqs(A, n) == UNION {[1..k -> A] : k \in 0..n}

Pad6 == Rep(" ", 6)

\* lines given to es_separador: a prefix that puts the tail at offset 0, 3,
\* 6 or 7, a tail, and the "\n" that readlines() leaves or not
PrefijosSep == {<<>>, Rep(" ", 3), Pad6, Pad6 \o <<"*">>}
AlfabetoSep == {"*", "A", " ", "\t"}
S_diez == Pad6 \o <<"*", " ">> \o Rep("A", 10)
S_cuatro == Pad6 \o <<"*", " ">> \o Rep("A", 4)
LineasSep ==
    {p \o s \o t : p \in PrefijosSep, s \in Seqs(AlfabetoSep, MaxSuf),
                   t \in {<<>>, <<"\n">>}}
    \cup {S_diez, S_cuatro}

\* lines given to es_patron_etiqueta
AlfabetoEtq == {"*", "Z", "b", "1", " "}
LineasEtq == {s \o t : s \in Seqs(AlfabetoEtq, MaxEtq), t \in {<<>>, <<"\n">>}}

\* lines of a program given to the list operations
L_corta == Pad6 \o <<"*", "A">>
L_separador == Pad6 \o <<"*", " ">> \o Rep("-", 5) \o <<"\n">>
L_tabulador == Pad6 \o <<"*", "-", "-", "\t", "-", "-", "-">>
L_display == Pad6 \o <<"*", " ", "D", "i", "s", "p", "l", "a", "y", " ", " ", "\n">>
L_codigo == Pad6 \o <<" ", "D", "I", "S", "P", "L", "A", "Y", " ", "A">>
L_move == Pad6 \o <<"*", " ", "m", "o", "v", "e", "\t">>
LineasPrograma ==
    {<<>>, L_corta, L_separador, L_tabulador, L_display, L_codigo, L_move}

\* lines of a text given to the block extractor
E_A == <<"*", "*", "A", "*">>
E_B == <<"*", "*", "B", "*">>
E_b == <<" ", "*", "*", "b", "*", " ">>
E_1 == <<"*", "*", "1", "*">>
T_hello == <<"h", "e", "l", "l", "o">>
T_x == <<"x">>
LineasTexto == {E_A, E_B, E_b, E_1, T_hello, T_x}

\* the text of a file whose lines all end with eol
RECURSIVE Fichero(_, _)
Fichero(ls, eol) ==
    IF ls = <<>> THEN <<>> ELSE ls[1] \o eol \o Fichero(Tail(ls), eol)

\* ---------------------------------------------------------------- the state
VARIABLES
    pc,             \* where the caller is
    llamada,        \* the last call of a one-line function: op, arg, val
    excepcion,      \* the exception that ended a call, "" when none
    lineas,         \* the lines being classified or scanned
    texto,          \* the text given to the block extractor
    i,              \* index of the running for loop (lines done so far)
    hechas,         \* list operations that have returned for lineas
    comentadas,     \* obtener_lineas_comentadas: result list
    total_lineas,   \* obtener_num_lineas_comentadas: counter
    resultado,      \* obtener_lineas_comentadas_con_display: result list
    bloques,        \* extractor: blocks emitted
    bloque_actual,  \* extractor: pending buffer
    dentro_bloque,  \* extractor: inside a block
    retorno         \* extractor: the value returned

vars == <<pc, llamada, excepcion, lineas, texto, i, hechas, comentadas,
          total_lineas, resultado, bloques, bloque_actual, dentro_bloque,
          retorno>>

vars_lista == <<hechas, comentadas, total_lineas, resultado>>
vars_ext == <<texto, bloques, bloque_actual, dentro_bloque, retorno>>

Init ==
    /\ pc = "inicio"
    /\ llamada = [op |-> "ninguna", arg |-> <<>>, val |-> FALSE]
    /\ excepcion = ""
    /\ lineas = <<>>
    /\ texto = <<>>
    /\ i = 0
    /\ hechas = {}
    /\ comentadas = <<>>
    /\ total_lineas = 0
    /\ resultado = <<>>
    /\ bloques = <<>>
    /\ bloque_actual = <<>>
    /\ dentro_bloque = FALSE
    /\ retorno = <<>>

\* ------------------------------------------------ calls of one-line functions
llamar_es_separador ==
    /\ pc = "inicio"
    /\ \E l \in LineasSep :
         LET r == es_separador(l)
         IN  /\ llamada' = [op |-> "es_separador", arg |-> l, val |-> r.val]
             /\ excepcion' = IF r.exc THEN "IndexError" ELSE ""
             /\ pc' = IF r.exc THEN "abortado" ELSE "fin"
    /\ UNCHANGED <<lineas, i, vars_lista, vars_ext>>

llamar_es_patron_etiqueta ==
    /\ pc = "inicio"
    /\ \E l \in LineasEtq :
         llamada' = [op |-> "es_patron_etiqueta", arg |-> l,
                     val |-> es_patron_etiqueta(l)]
    /\ pc' = "fin"
    /\ UNCHANGED <<excepcion, lineas, i, vars_lista, vars_ext>>

\* --------------------------------------------------------- list operations
\* lineas = f.readlines() (lines 132, 157) or texto.splitlines() (line 140)
leer_lineas ==
    /\ pc = "inicio"
    /\ \E ls \in Seqs(LineasPrograma, MaxLineas) : lineas' = ls
    /\ pc' = "listo"
    /\ UNCHANGED <<llamada, excepcion, i, vars_lista, vars_ext>>

\* obtener_lineas_comentadas, lines 59-63
obtener_lineas_comentadas_inicio ==
    /\ pc = "listo"
    /\ "comentadas" \notin hechas
    /\ comentadas' = <<>>
    /\ i' = 0
    /\ pc' = "comentadas"
    /\ UNCHANGED <<llamada, excepcion, lineas, hechas, total_lineas,
                   resultado, vars_ext>>

obtener_lineas_comentadas_iter ==
    /\ pc = "comentadas"
    /\ i < Len(lineas)
    /\ LET linea == lineas[i + 1]
           c == cond_comentada(linea)
       IN  IF c.exc
           THEN /\ excepcion' = "IndexError"
                /\ pc' = "abortado"
                /\ UNCHANGED <<i, comentadas>>
           ELSE /\ comentadas' =
                      IF c.val
                      THEN Append(comentadas,
                                  <<numero_linea(i), contenido_salida(linea)>>)
                      ELSE comentadas
                /\ i' = i + 1
                /\ UNCHANGED <<excepcion, pc>>
    /\ UNCHANGED <<llamada, lineas, hechas, total_lineas, resultado, vars_ext>>

obtener_lineas_comentadas_fin ==
    /\ pc = "comentadas"
    /\ i = Len(lineas)
    /\ hechas' = hechas \cup {"comentadas"}
    /\ pc' = "listo"
    /\ UNCHANGED <<llamada, excepcion, lineas, i, comentadas, total_lineas,
                   resultado, vars_ext>>

\* obtener_num_lineas_comentadas, lines 73-77
obtener_num_lineas_comentadas_inicio ==
    /\ pc = "listo"
    /\ "num" \notin hechas
    /\ total_lineas' = 0
    /\ i' = 0
    /\ pc' = "num"
    /\ UNCHANGED <<llamada, excepcion, lineas, hechas, comentadas,
                   resultado, vars_ext>>

obtener_num_lineas_comentadas_iter ==
    /\ pc = "num"
    /\ i < Len(lineas)
    /\ LET c == cond_num(lineas[i + 1])
       IN  IF c.exc
           THEN /\ excepcion' = "IndexError"
                /\ pc' = "abortado"
                /\ UNCHANGED <<i, total_lineas>>
           ELSE /\ total_lineas' =
                      IF c.val THEN total_lineas + 1 ELSE total_lineas
                /\ i' = i + 1
                /\ UNCHANGED <<excepcion, pc>>
    /\ UNCHANGED <<llamada, lineas, hechas, comentadas, resultado, vars_ext>>

obtener_num_lineas_comentadas_fin ==
    /\ pc = "num"
    /\ i = Len(lineas)
    /\ hechas' = hechas \cup {"num"}
    /\ pc' = "listo"
    /\ UNCHANGED <<llamada, excepcion, lineas, i, comentadas, total_lineas,
                   resultado, vars_ext>>

\* obtener_lineas_comentadas_con_display, lines 124-128
obtener_lineas_comentadas_con_display_inicio ==
    /\ pc = "listo"
    /\ "display" \notin hechas
    /\ resultado' = <<>>
    /\ i' = 0
    /\ pc' = "display"
    /\ UNCHANGED <<llamada, excepcion, lineas, hechas, comentadas,
                   total_lineas, vars_ext>>

obtener_lineas_comentadas_con_display_iter ==
    /\ pc = "display"
    /\ i < Len(lineas)
    /\ LET linea == lineas[i + 1]
           c == cond_display(linea)
       IN  IF c.exc
           THEN /\ excepcion' = "IndexError"
                /\ pc' = "abortado"
                /\ UNCHANGED <<i, resultado>>
           ELSE /\ resultado' =
                      IF c.val
                      THEN Append(resultado,
                                  <<numero_linea(i), contenido_salida(linea)>>)
                      ELSE resultado
                /\ i' = i + 1
                /\ UNCHANGED <<excepcion, pc>>
    /\ UNCHANGED <<llamada, lineas, hechas, comentadas, total_lineas, vars_ext>>

obtener_lineas_comentadas_con_display_fin ==
    /\ pc = "display"
    /\ i = Len(lineas)
    /\ hechas' = hechas \cup {"display"}
    /\ pc' = "listo"
    /\ UNCHANGED <<llamada, excepcion, lineas, i, comentadas, total_lineas,
                   resultado, vars_ext>>

\* ----------------------------------------- ext_bloq_comentados_patron_etiqueta
\* texto = f.read(), line 144
leer_texto ==
    /\ pc = "inicio"
    /\ \E ls \in Seqs(LineasTexto, MaxLineasTexto),
          eol \in {<<"\n">>, <<"\r", "\n">>} :
         texto' = Fichero(ls, eol)
    /\ pc' = "texto"
    /\ UNCHANGED <<llamada, excepcion, lineas, i, vars_lista, bloques,
                   bloque_actual, dentro_bloque, retorno>>

\* lines 95-98
ext_bloq_inicio ==
    /\ pc = "texto"
    /\ lineas' = splitlines(texto)
    /\ bloques' = <<>>
    /\ bloque_actual' = <<>>
    /\ dentro_bloque' = FALSE
    /\ i' = 0
    /\ pc' = "ext"
    /\ UNCHANGED <<llamada, excepcion, texto, vars_lista, retorno>>

\* one turn of the for loop, lines 100-111
ext_bloq_iter ==
    /\ pc = "ext"
    /\ i < Len(lineas)
    /\ LET st == cuerpo_bucle(lineas[i + 1],
                              Locales(bloques, bloque_actual, dentro_bloque))
       IN  /\ bloques' = st.bloques
           /\ bloque_actual' = st.bloque_actual
           /\ dentro_bloque' = st.dentro_bloque
    /\ i' = i + 1
    /\ UNCHANGED <<pc, llamada, excepcion, lineas, texto, vars_lista, retorno>>

\* line 113
ext_bloq_fin ==
    /\ pc = "ext"
    /\ i = Len(lineas)
    /\ retorno' = valor_retorno(Locales(bloques, bloque_actual, dentro_bloque))
    /\ pc' = "fin_ext"
    /\ UNCHANGED <<llamada, excepcion, lineas, texto, i, vars_lista, bloques,
                   bloque_actual, dentro_bloque>>

Next ==
    \/ llamar_es_separador
    \/ llamar_es_patron_etiqueta
    \/ leer_lineas
    \/ obtener_lineas_comentadas_inicio
    \/ obtener_lineas_comentadas_iter
    \/ obtener_lineas_comentadas_fin
    \/ obtener_num_lineas_comentadas_inicio
    \/ obtener_num_lineas_comentadas_iter
    \/ obtener_num_lineas_comentadas_fin
    \/ obtener_lineas_comentadas_con_display_inicio
    \/ obtener_lineas_comentadas_con_display_iter
    \/ obtener_lineas_comentadas_con_display_fin
    \/ leer_texto
    \/ ext_bloq_inicio
    \/ ext_bloq_iter
    \/ ext_bloq_fin

Spec == Init /\ [][Next]_vars

\* ================================================================ properties
Letras == Range(Minusculas) \cup Range(Mayusculas)

\* line n of lineas is a comment line: longer than 6 with "*" at offset 6
EsComentario(l) == Len(l) > 6 /\ l[7] = "*"

\* c is s with its longest tail of characters of C cut off
EsRecorte(c, s, C) ==
    /\ Len(c) <= Len(s)
    /\ \A k \in 1..Len(c) : c[k] = s[k]
    /\ \A k \in (Len(c) + 1)..Len(s) : s[k] \in C
    /\ c = <<>> \/ c[Len(c)] \notin C

\* nums is the ascending list of the members of Q
EsListaAscendente(nums, Q) ==
    /\ Len(nums) = Cardinality(Q)
    /\ \A k \in 1..Len(nums) : nums[k] \in Q
    /\ \A j, k \in 1..Len(nums) : j < k => nums[j] < nums[k]

Numeros(pares) == [k \in 1..Len(pares) |-> pares[k][1]]

\* ---- C4
\* the tail from offset 7 with every whitespace character left out
ColaSinBlancos(l) ==
    LET T == Slice(l, 7)
    IN  SelectSeq(T, LAMBDA c : c \notin Whitespace)

\* the tail from offset 7, trimmed, with the spaces inside left out
ColaSinEspacios(l) ==
    LET T == Slice(l, 7)
        N == {k \in 1..Len(T) : T[k] \notin Whitespace}
    IN  IF N = {} THEN <<>>
        ELSE LET lo == CHOOSE k \in N : \A j \in N : k <= j
                 hi == CHOOSE k \in N : \A j \in N : j <= k
             IN  SelectSeq(SubSeq(T, lo, hi), LAMBDA c : c # " ")

UnSoloCaracter(s) == Len(s) >= 5 /\ \A j, k \in 1..Len(s) : s[j] = s[k]

\* C4 as stated: es_separador(line) is true iff the line has at least 10
\* characters, "*" at offset 6, and its tail from offset 7, with every
\* whitespace character removed, is at least 5 copies of one character.
C4_TodoBlanco ==
    llamada.op = "es_separador" =>
        (llamada.val <=>
            /\ Len(llamada.arg) >= 10
            /\ llamada.arg[7] = "*"
            /\ UnSoloCaracter(ColaSinBlancos(llamada.arg)))

\* C4 amended: es_separador(line) is true iff the line has at least 10
\* characters, "*" at offset 6, and its tail from offset 7, trimmed of
\* whitespace at both ends and with the space characters inside removed (a
\* tab inside stays and counts as a character), is at least 5 copies of one
\* character; "      * AAAAAAAAAA" is a separator, "      * AAAA" is not.
C4_SoloEspacios ==
    llamada.op = "es_separador" =>
        /\ llamada.val <=>
            /\ Len(llamada.arg) >= 10
            /\ llamada.arg[7] = "*"
            /\ UnSoloCaracter(ColaSinEspacios(llamada.arg))
        /\ Len(llamada.arg) < 10 => ~llamada.val
        /\ (Len(llamada.arg) >= 7 /\ llamada.arg[7] # "*") => ~llamada.val
        /\ llamada.arg = S_diez => llamada.val
        /\ llamada.arg = S_cuatro => ~llamada.val

\* a separator whose repeated characters are split by a space
C4_Testigo ==
    /\ llamada.op = "es_separador"
    /\ llamada.val
    /\ llamada.arg = Pad6 \o <<"*", "A", "A", " ", "A", "A", "A", "\n">>

\* ---- C8
\* l is blanks, then "*", "*", one letter, "*", then blanks
EsEtiqueta(l) ==
    \E p \in 0..(Len(l) - 4) :
        /\ \A k \in 1..p : l[k] \in Whitespace
        /\ l[p + 1] = "*"
        /\ l[p + 2] = "*"
        /\ l[p + 3] \in Letras
        /\ l[p + 4] = "*"
        /\ \A k \in (p + 5)..Len(l) : l[k] \in Whitespace

C9_NuncaLanza ==
    /\ excepcion = ""
    /\ pc # "abortado"
    /\ llamada.op # "ninguna" => llamada.val \in BOOLEAN

\* es_separador has returned false for a line too short to have offset 6
C9_Testigo ==
    /\ pc = "fin"
    /\ llamada.op = "es_separador"
    /\ Len(llamada.arg) < 7
    /\ llamada.val = FALSE

\* ---- C3
Separadores == {n \in 1..Len(lineas) : es_separador(lineas[n]).val}
Comentarios == {n \in 1..Len(lineas) : EsComentario(lineas[n])}

Entradas == Range(comentadas) \cup Range(resultado)

MOVE == <<"M", "O", "V", "E">>
Tokens == {DISPLAY, MOVE}

MismaLetra(a, b) ==
    \/ a = b
    \/ \E j \in 1..26 : {a, b} = {Minusculas[j], Mayusculas[j]}

\* l holds tok, letter case aside
ContieneSinCaja(l, tok) ==
    \E o \in 0..(Len(l) - Len(tok)) :
        \A k \in 1..Len(tok) : MismaLetra(l[o + k], tok[k])

ComentariosCon(tok) == {n \in Comentarios : ContieneSinCaja(lineas[n], tok)}

\* C7 as stated: for every token of the caller the operation returns the
\* comment lines that hold that token, letter case aside, in input order.
C7_CualquierToken ==
    "display" \in hechas =>
        \A tok \in Tokens :
            EsListaAscendente(Numeros(resultado), ComentariosCon(tok))

\* C7 amended: the operation takes the lines only, the word is fixed to
\* DISPLAY: it returns, in input order, exactly the lines longer than 6
\* with "*" at offset 6 that hold DISPLAY in any letter case; separators
\* are not left out.
C7_SoloDisplay ==
    "display" \in hechas =>
        EsListaAscendente(Numeros(resultado), ComentariosCon(DISPLAY))

\* a comment holding "Display" is returned, a code line holding DISPLAY and
\* a comment holding "move" are not
C7_Testigo ==
    /\ "display" \in hechas
    /\ lineas = <<L_codigo, L_move, L_display>>
    /\ Numeros(resultado) = <<3>>

\* ---- block extractor: C1, C2, C10
\* positions of the label lines among the first n lines
Etiquetas(n) == {p \in 1..n : es_patron_etiqueta(lineas[p])}

\* position of the n-th label line
EtiquetaNum(n) ==
    CHOOSE p \in Etiquetas(Len(lineas)) : Cardinality(Etiquetas(p)) = n

\* an opening label line, the next label line after it
Pares(n) ==
    {<<a, b>> \in Etiquetas(n) \X Etiquetas(n) :
        a < b /\ Etiquetas(b - 1) \ Etiquetas(a) = {}}

BloqueHola == E_A \o <<"\n">> \o T_hello \o <<"\n">> \o E_B

\* C1: when the input ends inside a block, the pending buffer is dropped:
\* the value returned is the list of the blocks emitted at closing label
\* lines, every block returned ends with a label line, the pending buffer
\* is no block of it, and with L label lines (L is odd here) there are
\* (L - 1) div 2 blocks; ["**A*", "x"] yields no block.
C1_PendienteDescartado ==
    (pc = "fin_ext" /\ dentro_bloque) =>
        /\ bloque_actual # <<>>
        /\ retorno = bloques
        /\ join(bloque_actual) \notin Range(retorno)
        /\ \A k \in 1..Len(retorno) :
             LET bl == splitlines(retorno[k])
             IN  es_patron_etiqueta(bl[Len(bl)])
        /\ Len(retorno) = (Cardinality(Etiquetas(Len(lineas))) - 1) \div 2
        /\ lineas = <<E_A, T_x>> => retorno = <<>>

\* a block was closed and returned, a later label opened one never closed
C1_Testigo ==
    /\ pc = "fin_ext"
    /\ dentro_bloque
    /\ lineas = <<E_A, E_B, E_b, T_x>>
    /\ retorno = <<E_A \o <<"\n">> \o E_B>>

\* C2: the extractor starts outside a block; at every point of the scan
\* each emitted block is the input lines from an opening label line
\* through the next label line, both included, joined with newlines, the
\* blocks come in the order of their opening labels, and the buffer is
\* empty outside a block and holds the lines from the pending opening label
\* to the current line inside one; ["**A*", "hello", "**B*"] yields the one
\* block "**A*\nhello\n**B*".
C2_BloquesEntreEtiquetas ==
    pc \in {"ext", "fin_ext"} =>
        /\ i = 0 => (~dentro_bloque /\ bloques = <<>>)
        /\ \E f \in [1..Len(bloques) -> Pares(i)] :
             /\ \A k \in 1..Len(bloques) :
                  bloques[k] = join(SubSeq(lineas, f[k][1], f[k][2]))
             /\ \A j, k \in 1..Len(bloques) : j < k => f[j][2] < f[k][1]
        /\ ~dentro_bloque => bloque_actual = <<>>
        /\ dentro_bloque =>
             \E a \in Etiquetas(i) :
                 /\ Etiquetas(i) \ Etiquetas(a) = {}
                 /\ bloque_actual = SubSeq(lineas, a, i)
        /\ (pc = "fin_ext" /\ lineas = <<E_A, T_hello, E_B>>)
               => retorno = <<BloqueHola>>

\* the example of the claim has been extracted
C2_Testigo ==
    /\ pc = "fin_ext"
    /\ lineas = <<E_A, T_hello, E_B>>
    /\ retorno = <<BloqueHola>>

\* C10: with L label lines the extractor returns L div 2 blocks; block k
\* runs from label line 2k-1 to label line 2k, its text starts and ends
\* with a label line and has none in between, so no line is in two blocks
\* and a closing label opens nothing; with L = 0 there is no block and with
\* L odd the last label line is in no block.
C10_MitadDeEtiquetas ==
    pc = "fin_ext" =>
        LET L == Cardinality(Etiquetas(Len(lineas)))
        IN  /\ Len(retorno) = L \div 2
            /\ \A k \in 1..Len(retorno) :
                 LET bl == splitlines(retorno[k])
                     a == EtiquetaNum(2 * k - 1)
                     b == EtiquetaNum(2 * k)
                 IN  /\ bl = SubSeq(lineas, a, b)
                     /\ Len(bl) >= 2
                     /\ es_patron_etiqueta(bl[1])
                     /\ es_patron_etiqueta(bl[Len(bl)])
                     /\ \A m \in 2..(Len(bl) - 1) : ~es_patron_etiqueta(bl[m])
                     /\ k > 1 => EtiquetaNum(2 * k - 2) < a
            /\ L = 0 => retorno = <<>>
            /\ L % 2 = 1 =>
                 \A k \in 1..Len(retorno) : EtiquetaNum(2 * k) < EtiquetaNum(L)

\* three label lines in a row give one block, not two
C10_Testigo ==
    /\ pc = "fin_ext"
    /\ lineas = <<E_A, E_b, E_B, T_x>>
    /\ Len(retorno) = 1
====
